---------------------------- MODULE Spec2Model ----------------------------
(***************************************************************************)
(* The third-person character demo: the Character logic component          *)
(* (Character.cpp, src/unnamed/part_000) and the MainScene application     *)
(* (MainScene.cpp, src/unnamed/part_001).                                  *)
(*                                                                         *)
(* Units.  Time is counted in ticks of 1/30 s, contact heights in tenths   *)
(* of a world unit relative to the node's y, contact normals in            *)
(* hundredths, camera distances in half world units.                       *)
(***************************************************************************)
EXTENDS Integers, Sequences, FiniteSets

\* ------------------------------------------------------------------ bounds

\* The longest in-air time followed, in ticks; FixedUpdate is not taken beyond it.
MaxTimer == 4
\* The most contacts one node-collision event carries.
MaxContacts == 2

\* ------------------------------------------------------- program constants

\* Control bits of Character.h, used as the members of the set controls_.buttons_.
CTRL_FORWARD == "CTRL_FORWARD"
CTRL_BACK == "CTRL_BACK"
CTRL_LEFT == "CTRL_LEFT"
CTRL_RIGHT == "CTRL_RIGHT"
CTRL_JUMP == "CTRL_JUMP"

\* "When character has been in air less than 1/10 second": 0.1 s = 3 ticks of 1/30 s.
INAIR_THRESHOLD_TIME == 3

\* The force magnitudes are kept symbolic: only which one is used matters.
MOVE_FORCE == "MOVE_FORCE"
INAIR_MOVE_FORCE == "INAIR_MOVE_FORCE"
BRAKE_FORCE == "BRAKE_FORCE"
JUMP_FORCE == "JUMP_FORCE"

\* Camera distances (1.0, 5.0 and 20.0 world units), in half units.
CAMERA_MIN_DIST == 2
CAMERA_INITIAL_DIST == 10
CAMERA_MAX_DIST == 40

\* ------------------------------------------------------------ input sets

\* The fixed time steps the physics world hands to FixedUpdate, in ticks.
TimeSteps == {1, 2}

\* The contacts of a node-collision event: y is the contact's height above the
\* node's y in tenths (1.0 is 10), ny the y of its normal in hundredths (0.75 is 75).
ContactSet == { [y |-> 9, ny |-> -76], [y |-> 9, ny |-> 75], [y |-> 10, ny |-> 100] }

\* The contact buffers of an event: every sequence of up to MaxContacts contacts.
ContactBuffers == UNION { [1..n -> ContactSet] : n \in 0..MaxContacts }

\* What the gyroscope makes the touch utility press, one choice per axis.
GyroSets ==
    { h \cup v : h \in { {}, {CTRL_LEFT}, {CTRL_RIGHT} },
                 v \in { {}, {CTRL_FORWARD}, {CTRL_BACK} } }

\* The camera distances a pinch zoom leaves behind: the touch utility does not
\* clamp them.
ZoomLevels == { 1, CAMERA_INITIAL_DIST, CAMERA_MAX_DIST + 1 }

\* Hit distances of the camera raycast that are tried, cut to the ray's length.
HitDistances == { 1, CAMERA_MIN_DIST, CAMERA_MIN_DIST + 1, CAMERA_INITIAL_DIST, CAMERA_MAX_DIST }

VARIABLES
    onGround_,       \* Character::onGround_
    okToJump_,       \* Character::okToJump_
    inAirTimer_,     \* Character::inAirTimer_, in ticks
    onLeftLane_,     \* Character::onLeftLane_
    onMiddleLane_,   \* Character::onMiddleLane_
    onRightLane_,    \* Character::onRightLane_
    buttons,         \* Character::controls_.buttons_, as the set of bits that are down
    touch,           \* whether MainScene::touch_ is set (touchEnabled_ at Start)
    useGyroscope_,   \* Touch::useGyroscope_
    cameraDistance_, \* Touch::cameraDistance_
    savedFile,       \* Data/Scenes/CharacterDemo.xml: << >> or << the saved attributes >>
    last,            \* the most recent handler call: its name, okToJump_ on entry and
                     \* what it did (impulses applied, walk animation played, scene
                     \* loaded, the distance the camera was put at)
    heldJumps,       \* history: jump impulses this Character applied since its last
                     \* fixed step with CTRL_JUMP up
    groundSignal     \* history: since the last fixed step an event carried a ground
                     \* contact or a load restored onGround_ true

vars == << onGround_, okToJump_, inAirTimer_, onLeftLane_, onMiddleLane_, onRightLane_,
           buttons, touch, useGyroscope_, cameraDistance_, savedFile, last,
           heldJumps, groundSignal >>

character == << onGround_, okToJump_, inAirTimer_, onLeftLane_, onMiddleLane_, onRightLane_ >>

\* ------------------------------------------------------------- Character

\* Math: Abs, Min, Clamp of the engine's MathDefs.
Abs(x) == IF x < 0 THEN -x ELSE x

Min(a, b) == IF a < b THEN a ELSE b

Clamp(x, lo, hi) == IF x < lo THEN lo ELSE IF x > hi THEN hi ELSE x

\* Controls::Set(mask, down)
ControlsSet(b, mask, down) == IF down THEN b \cup mask ELSE b \ mask

\* Controls::IsDown(button)
IsDown(b, button) == button \in b

\* "Update the in air timer. Reset if grounded"
UpdateTimer(onGround, timer, timeStep) == IF ~onGround THEN timer + timeStep ELSE 0

SoftGroundedAtThreshold(timer) == timer <= INAIR_THRESHOLD_TIME

SoftGrounded(timer) == timer < INAIR_THRESHOLD_TIME

\* moveDir before normalisation, as <<x, y, z>>: FORWARD is +z, RIGHT +x, LEFT -x.
MoveDir(b) ==
    << (IF IsDown(b, CTRL_RIGHT) THEN 1 ELSE 0) - (IF IsDown(b, CTRL_LEFT) THEN 1 ELSE 0),
       0,
       IF IsDown(b, CTRL_FORWARD) THEN 1 ELSE 0 >>

ZERO == << 0, 0, 0 >>

\* The move impulse: rot * moveDir * (softGrounded ? MOVE_FORCE : INAIR_MOVE_FORCE)
MoveForce(softGrounded) == IF softGrounded THEN MOVE_FORCE ELSE INAIR_MOVE_FORCE

\* Whether this step applies Vector3::UP * JUMP_FORCE.
JumpsInAir(softGrounded, b, ok) == IsDown(b, CTRL_JUMP) /\ ok

Jumps(softGrounded, b, ok) == softGrounded /\ IsDown(b, CTRL_JUMP) /\ ok

\* okToJump_ after the step ("Must release jump control inbetween jumps").
OkToJumpNoDebounce(softGrounded, b, ok) == TRUE

OkToJumpRearmInAir(softGrounded, b, ok) ==
    IF IsDown(b, CTRL_JUMP) THEN (IF softGrounded /\ ok THEN FALSE ELSE ok) ELSE TRUE

OkToJumpAfter(softGrounded, b, ok) ==
    IF softGrounded
    THEN IF IsDown(b, CTRL_JUMP) THEN (IF ok THEN FALSE ELSE ok) ELSE TRUE
    ELSE ok

\* "Reset grounded flag for next frame"
OnGroundKept(onGround) == onGround

OnGroundAfterFixedUpdate(onGround) == FALSE

\* The ApplyImpulse calls of one step, in order.
Impulses(softGrounded, b, ok) ==
    << [kind |-> "move", force |-> MoveForce(softGrounded)] >>
    \o (IF softGrounded THEN << [kind |-> "brake", force |-> BRAKE_FORCE] >> ELSE << >>)
    \o (IF Jumps(softGrounded, b, ok) THEN << [kind |-> "jump", force |-> JUMP_FORCE] >> ELSE << >>)

HasImpulse(impulses, kind) == \E i \in 1..Len(impulses) : impulses[i].kind = kind

FixedUpdate(timeStep) ==
    LET timer == UpdateTimer(onGround_, inAirTimer_, timeStep)
        softGrounded == SoftGrounded(timer)
        moveDir == MoveDir(buttons)
        impulses == Impulses(softGrounded, buttons, okToJump_)
    IN /\ timer <= MaxTimer
       /\ inAirTimer_' = timer
       /\ okToJump_' = OkToJumpAfter(softGrounded, buttons, okToJump_)
       /\ onGround_' = OnGroundAfterFixedUpdate(onGround_)
       /\ last' = [ op |-> "FixedUpdate",
                    impulses |-> impulses,
                    walk |-> (softGrounded /\ moveDir # ZERO),
                    okToJump |-> okToJump_, loaded |-> FALSE, cameraDistance |-> 0 ]
       /\ heldJumps' = IF ~IsDown(buttons, CTRL_JUMP) THEN 0
                       ELSE IF HasImpulse(impulses, "jump")
                            THEN Min(heldJumps + 1, 2) ELSE heldJumps
       /\ groundSignal' = FALSE
       /\ UNCHANGED << onLeftLane_, onMiddleLane_, onRightLane_, buttons, touch,
                       useGyroscope_, cameraDistance_, savedFile >>

\* "If contact is below node center and mostly vertical, assume it's a ground contact"
IsGroundContactSigned(c) == c.y < 10 /\ c.ny > 75

IsGroundContact(c) == c.y < 10 /\ Abs(c.ny) > 75

\* The while loop over the contact buffer, from contact i on.
RECURSIVE ReadContacts(_, _, _)
ReadContacts(contacts, i, onGround) ==
    IF i > Len(contacts) THEN onGround
    ELSE ReadContacts(contacts, i + 1, IF IsGroundContact(contacts[i]) THEN TRUE ELSE onGround)

\* History: whether an event carries a ground contact, as the claims word it: below the node's y plus
\* 1.0, with a normal whose y is beyond 0.75 either way.
GroundContactIn(contacts) ==
    \E i \in 1..Len(contacts) :
        contacts[i].y < 10 /\ (contacts[i].ny > 75 \/ contacts[i].ny < -75)

HandleNodeCollision(contacts) ==
    /\ onGround_' = ReadContacts(contacts, 1, onGround_)
    /\ last' = [ op |-> "HandleNodeCollision", impulses |-> << >>, walk |-> FALSE,
                 okToJump |-> okToJump_, loaded |-> FALSE, cameraDistance |-> 0 ]
    /\ groundSignal' = (groundSignal \/ GroundContactIn(contacts))
    /\ UNCHANGED << okToJump_, inAirTimer_, onLeftLane_, onMiddleLane_, onRightLane_,
                    buttons, touch, useGyroscope_, cameraDistance_, savedFile, heldJumps >>

\* ------------------------------------------------------------- MainScene

KEY_A == "KEY_A"
KEY_D == "KEY_D"
KEY_SPACE == "KEY_SPACE"
KEY_G == "KEY_G"
KEY_F5 == "KEY_F5"
KEY_F7 == "KEY_F7"

Keys == { KEY_A, KEY_D, KEY_SPACE, KEY_G, KEY_F5, KEY_F7 }

AllButtons == { CTRL_FORWARD, CTRL_BACK, CTRL_LEFT, CTRL_RIGHT, CTRL_JUMP }

\* Touch::UpdateTouches(controls): the gyroscope presses movement bits.
UpdateTouches(b, gyroPressed) == b \cup gyroPressed

\* "Update controls using keys": the block under if (!ui->GetFocusElement()).
KeyControls(b, keys, gyro) ==
    LET b1 == IF ~gyro
              THEN ControlsSet(ControlsSet(b, {CTRL_LEFT}, KEY_A \in keys),
                               {CTRL_RIGHT}, KEY_D \in keys)
              ELSE b
        b2 == ControlsSet(b1, {CTRL_JUMP}, KEY_SPACE \in keys)
    IN ControlsSet(b2, {CTRL_FORWARD}, TRUE)

\* The attributes Character::RegisterObject registers, as Scene::SaveXML writes them
\* (yaw and pitch are never changed from 0 and are left out).
SavedAttributes ==
    [ onGround |-> onGround_, okToJump |-> okToJump_,
      onLeftLane |-> onLeftLane_, onMiddleLane |-> onMiddleLane_,
      onRightLane |-> onRightLane_, inAirTimer |-> inAirTimer_ ]

\* The default values Character::RegisterObject gives the attributes.
AttributeDefaults ==
    [ onGround |-> FALSE, okToJump |-> TRUE,
      onLeftLane |-> FALSE, onMiddleLane |-> TRUE,
      onRightLane |-> FALSE, inAirTimer |-> 0 ]

\* What the constructor can leave in the three lane flags of a new Character.
LaneAllocations == [ onLeftLane : BOOLEAN, onMiddleLane : BOOLEAN, onRightLane : BOOLEAN ]

\* The Character that Scene::LoadXML creates from the file: the constructor runs,
\* then every attribute the file holds is set.  An attribute saved at its default
\* value is not in the file, and the field keeps what the constructor left.
Constructed(allocated) ==
    [ onGround |-> FALSE, okToJump |-> TRUE,
      onLeftLane |-> allocated.onLeftLane, onMiddleLane |-> allocated.onMiddleLane,
      onRightLane |-> allocated.onRightLane, inAirTimer |-> 0 ]

LoadedAttribute(saved, name, allocated) ==
    IF saved[name] = AttributeDefaults[name]
    THEN Constructed(allocated)[name]
    ELSE saved[name]

\* keys: the keys that are down (A, D, Space) or were pressed this frame (G, F5, F7);
\* focus: whether a UI element has the focus; gyroPressed: the bits the touch
\* utility presses; zoom: the camera distance the touch utility leaves; allocated:
\* the lane flags of the Character a load constructs.
HandleUpdate(keys, focus, gyroPressed, zoom, allocated) ==
    LET gyro == touch /\ useGyroscope_
        cleared == ControlsSet(buttons, AllButtons, FALSE)
        touched == IF touch THEN UpdateTouches(cleared, gyroPressed) ELSE cleared
        keyed == IF ~focus THEN KeyControls(touched, keys, gyro) ELSE touched
        saves == ~focus /\ KEY_F5 \in keys
        file == IF saves THEN << SavedAttributes >> ELSE savedFile
        loads == ~focus /\ KEY_F7 \in keys /\ file # << >>
    IN /\ gyroPressed \in (IF gyro THEN GyroSets ELSE { {} })
       /\ zoom \in (IF touch THEN ZoomLevels \cup { cameraDistance_ } ELSE { cameraDistance_ })
       /\ allocated \in (IF loads THEN LaneAllocations
                                  ELSE { [ onLeftLane |-> onLeftLane_,
                                           onMiddleLane |-> onMiddleLane_,
                                           onRightLane |-> onRightLane_ ] })
       /\ cameraDistance_' = zoom
       /\ useGyroscope_' = IF ~focus /\ touch /\ KEY_G \in keys
                           THEN ~useGyroscope_ ELSE useGyroscope_
       /\ savedFile' = file
       /\ IF loads
          THEN \* Scene::LoadXML recreates the Character; character_ is reacquired.
               /\ onGround_' = LoadedAttribute(file[1], "onGround", allocated)
               /\ okToJump_' = LoadedAttribute(file[1], "okToJump", allocated)
               /\ inAirTimer_' = LoadedAttribute(file[1], "inAirTimer", allocated)
               /\ onLeftLane_' = LoadedAttribute(file[1], "onLeftLane", allocated)
               /\ onMiddleLane_' = LoadedAttribute(file[1], "onMiddleLane", allocated)
               /\ onRightLane_' = LoadedAttribute(file[1], "onRightLane", allocated)
               /\ buttons' = {}
          ELSE /\ buttons' = keyed
               /\ UNCHANGED character
       /\ last' = [ op |-> "HandleUpdate", impulses |-> << >>, walk |-> FALSE,
                    okToJump |-> okToJump_, loaded |-> loads, cameraDistance |-> 0 ]
       /\ groundSignal' = (groundSignal \/ (loads /\ onGround_'))
       /\ heldJumps' = IF loads THEN 0 ELSE heldJumps
       /\ UNCHANGED touch

\* PhysicsWorld::RaycastSingle(result, ray, maxDistance, 2): no body, or a layer-2
\* body at a distance within maxDistance.
M_INFINITY == CAMERA_MAX_DIST * 1000

RaycastResults(maxDistance) ==
    { [body |-> FALSE, distance |-> M_INFINITY] }
    \cup { [body |-> TRUE, distance |-> d] : d \in { h \in HitDistances : h <= maxDistance } }

\* The camera's distance from the aim point along rayDir.
CameraRayDistance(rayDistance, result) ==
    LET hitLimited == IF result.body THEN Min(rayDistance, result.distance) ELSE rayDistance
    IN Clamp(hitLimited, CAMERA_MIN_DIST, CAMERA_MAX_DIST)

HandlePostUpdate(result) ==
    LET rayDistance == IF touch THEN cameraDistance_ ELSE CAMERA_INITIAL_DIST
    IN /\ result \in RaycastResults(rayDistance)
       /\ last' = [ op |-> "HandlePostUpdate", impulses |-> << >>, walk |-> FALSE,
                    okToJump |-> okToJump_, loaded |-> FALSE,
                    cameraDistance |-> CameraRayDistance(rayDistance, result) ]
       /\ UNCHANGED << character, buttons, touch, useGyroscope_, cameraDistance_,
                       savedFile, heldJumps, groundSignal >>

\* ------------------------------------------------------------ the program

\* Character::Character initialises onGround_, okToJump_ and inAirTimer_ only: the
\* three lane flags hold whatever the allocation held.
Init ==
    /\ onGround_ = FALSE
    /\ okToJump_ = TRUE
    /\ inAirTimer_ = 0
    /\ onLeftLane_ \in BOOLEAN
    /\ onMiddleLane_ \in BOOLEAN
    /\ onRightLane_ \in BOOLEAN
    /\ buttons = {}
    /\ touch \in BOOLEAN
    /\ useGyroscope_ = FALSE
    /\ cameraDistance_ = CAMERA_INITIAL_DIST
    /\ savedFile = << >>
    /\ last = [ op |-> "Start", impulses |-> << >>, walk |-> FALSE,
                okToJump |-> TRUE, loaded |-> FALSE, cameraDistance |-> 0 ]
    /\ heldJumps = 0
    /\ groundSignal = FALSE

\* HandleUpdate under the keys, focus states, gyroscope readings and pinch zooms the
\* frame may bring.
UpdateWith(keySet, focusSet, gyroSets, zoomLevels) ==
    \E keys \in SUBSET keySet, focus \in focusSet,
       gyroPressed \in (IF touch /\ useGyroscope_ THEN gyroSets ELSE { {} }),
       zoom \in (IF touch THEN zoomLevels \cup { cameraDistance_ } ELSE { cameraDistance_ }) :
        \E allocated \in (IF KEY_F7 \in keys
                          THEN LaneAllocations
                          ELSE { [ onLeftLane |-> onLeftLane_, onMiddleLane |-> onMiddleLane_,
                                   onRightLane |-> onRightLane_ ] }) :
            HandleUpdate(keys, focus, gyroPressed, zoom, allocated)

Update == UpdateWith(Keys, BOOLEAN, GyroSets, ZoomLevels)

PhysicsPreStep == \E timeStep \in TimeSteps : FixedUpdate(timeStep)

NodeCollision == \E contacts \in ContactBuffers : HandleNodeCollision(contacts)

PostUpdate == \E result \in RaycastResults(CAMERA_MAX_DIST + 1) : HandlePostUpdate(result)

Next == Update \/ PhysicsPreStep \/ NodeCollision \/ PostUpdate

\* The whole program.
Spec == Init /\ [][Next]_vars

\* The Character under fixed steps, collision events and the key controls of every
\* frame: the scene is neither saved nor loaded, the touch utility is left alone.
UpdateControls == UpdateWith({ KEY_A, KEY_D, KEY_SPACE }, BOOLEAN, { {} }, {})

NextCharacter == UpdateControls \/ PhysicsPreStep \/ NodeCollision

SpecCharacter == Init /\ [][NextCharacter]_vars

\* The scene saved (F5) and loaded (F7) while the character runs and jumps, on a
\* platform without touch input (touch_ stays null).
InitDesktop == Init /\ ~touch

UpdateSaveLoad == UpdateWith({ KEY_SPACE, KEY_F5, KEY_F7 }, { FALSE }, { {} }, {})

\* Collision events that carry one contact or none.
NodeCollisionSingle ==
    \E contacts \in { << >> } \cup [1..1 -> ContactSet] : HandleNodeCollision(contacts)

NextSaveLoad == UpdateSaveLoad \/ PhysicsPreStep \/ NodeCollisionSingle

SpecSaveLoad == InitDesktop /\ [][NextSaveLoad]_vars

\* The touch utility and the camera: the gyroscope switched on and off, pinch
\* zooms, and the camera raycast of every frame.
UpdateZoom == UpdateWith({ KEY_A, KEY_G }, BOOLEAN, GyroSets, ZoomLevels)

NextCamera == UpdateZoom \/ PostUpdate

SpecCamera == Init /\ [][NextCamera]_vars

\* ------------------------------------------------------------- the claims

LanesTrue ==
    { l \in { "left", "middle", "right" } :
        \/ l = "left" /\ onLeftLane_
        \/ l = "middle" /\ onMiddleLane_
        \/ l = "right" /\ onRightLane_ }

\* C1: over fixed steps and collision events the jump impulse is applied at most
\* once per continuous hold of CTRL_JUMP: no second jump impulse is counted before
\* a fixed step has seen CTRL_JUMP up.
C1_OneJumpPerHold == heldJumps <= 1

\* C1's case: the character has jumped, the control is still held, and a later
\* soft-grounded step applied no second jump impulse.
C1_Witness ==
    /\ last.op = "FixedUpdate"
    /\ heldJumps = 1
    /\ IsDown(buttons, CTRL_JUMP)
    /\ inAirTimer_ < INAIR_THRESHOLD_TIME
    /\ ~HasImpulse(last.impulses, "jump")

\* C2: when the camera raycast hits a layer-2 body, the camera is put no farther
\* from the aim point than the hit, for every hit distance.
C2_CameraWithinHit ==
    [][last'.op = "HandlePostUpdate" =>
       \A result \in RaycastResults(CAMERA_MAX_DIST + 1) :
          (HandlePostUpdate(result) /\ result.body)
              => last'.cameraDistance <= result.distance]_vars

\* C3: in every fixed step the in-air timer becomes 0 if onGround_ was true on
\* entry and grows by timeStep otherwise, and the move impulse has the magnitude
\* MOVE_FORCE exactly when the updated timer is below INAIR_THRESHOLD_TIME, and
\* INAIR_MOVE_FORCE otherwise.
C3_MoveForceByTimer ==
    [][last'.op = "FixedUpdate" =>
       \A timeStep \in TimeSteps :
          FixedUpdate(timeStep) =>
              LET after == IF onGround_ THEN 0 ELSE inAirTimer_ + timeStep
              IN /\ inAirTimer_' = after
                 /\ last'.impulses[1].kind = "move"
                 /\ last'.impulses[1].force =
                        IF after < INAIR_THRESHOLD_TIME THEN MOVE_FORCE ELSE INAIR_MOVE_FORCE]_vars

\* C3's case: a step taken in the air within the threshold time, moved with the
\* ground magnitude.
C3_Witness ==
    /\ last.op = "FixedUpdate"
    /\ inAirTimer_ > 0
    /\ inAirTimer_ < INAIR_THRESHOLD_TIME
    /\ last.impulses[1].force = MOVE_FORCE

\* C4: in every reachable state at most one of the three lane flags is true.
C4_OneLane == Cardinality(LanesTrue) <= 1

\* C5: a node-collision event leaves onGround_ true if it was true or if one of its
\* contacts is a ground contact, false otherwise, and changes no other field of
\* the Character.
C5_GroundContact ==
    [][last'.op = "HandleNodeCollision" =>
       \A contacts \in ContactBuffers :
          HandleNodeCollision(contacts) =>
              /\ onGround_' = (onGround_ \/ GroundContactIn(contacts))
              /\ UNCHANGED << okToJump_, inAirTimer_, onLeftLane_, onMiddleLane_,
                              onRightLane_, buttons >>]_vars

\* C5's case: an event with a ground contact has set the flag.
C5_Witness ==
    /\ last.op = "HandleNodeCollision"
    /\ onGround_
    /\ groundSignal

\* C6: every fixed step ends with onGround_ false; it resets the in-air timer to 0
\* only if, since the previous fixed step, an event carried a ground contact or a
\* load restored the flag, and without either the timer grows by timeStep.
C6_ResetNeedsGroundEvent ==
    [][last'.op = "FixedUpdate" =>
       \A timeStep \in TimeSteps :
          FixedUpdate(timeStep) =>
              /\ onGround_' = FALSE
              /\ (inAirTimer_' = 0 => groundSignal)
              /\ (~groundSignal => inAirTimer_' = inAirTimer_ + timeStep)]_vars

\* C6's case: a fixed step has reset the timer and cleared the flag.
C6_Witness ==
    /\ last.op = "FixedUpdate"
    /\ inAirTimer_ = 0
    /\ ~onGround_

\* C7: a fixed step whose updated timer is at or above INAIR_THRESHOLD_TIME applies
\* neither the braking nor the jump impulse and leaves okToJump_ as it was.
C7_NoJumpInAir ==
    [][last'.op = "FixedUpdate" =>
       \A timeStep \in TimeSteps :
          (FixedUpdate(timeStep) /\ inAirTimer_' >= INAIR_THRESHOLD_TIME) =>
              /\ ~HasImpulse(last'.impulses, "jump")
              /\ ~HasImpulse(last'.impulses, "brake")
              /\ okToJump_' = okToJump_]_vars

\* C7's case: a step past the threshold with CTRL_JUMP down and the jump armed.
C7_Witness ==
    /\ last.op = "FixedUpdate"
    /\ inAirTimer_ >= INAIR_THRESHOLD_TIME
    /\ IsDown(buttons, CTRL_JUMP)
    /\ last.okToJump
    /\ okToJump_

\* C8: after HandleUpdate with no focused UI element, CTRL_FORWARD is set, CTRL_JUMP
\* is the Space key, CTRL_LEFT and CTRL_RIGHT are the A and D keys unless the
\* gyroscope is in use, and CTRL_BACK is set only if the touch utility set it.
C8_ControlsFromInput ==
    [][last'.op = "HandleUpdate" =>
       \A keys \in SUBSET Keys, gyroPressed \in GyroSets, allocated \in LaneAllocations :
          HandleUpdate(keys, FALSE, gyroPressed, cameraDistance_', allocated) =>
              /\ IsDown(buttons', CTRL_FORWARD)
              /\ IsDown(buttons', CTRL_JUMP) <=> KEY_SPACE \in keys
              /\ ~(touch /\ useGyroscope_) =>
                     /\ IsDown(buttons', CTRL_LEFT) <=> KEY_A \in keys
                     /\ IsDown(buttons', CTRL_RIGHT) <=> KEY_D \in keys
              /\ IsDown(buttons', CTRL_BACK) => (touch /\ CTRL_BACK \in gyroPressed)]_vars

\* C9: okToJump_ of a Character goes from false to true only in a fixed step that
\* is soft-grounded and sees CTRL_JUMP up.  (A scene load puts a new Character in
\* the place of the old one; its okToJump_ starts from the saved value.)
C9_RearmOnlyOnGround ==
    [][(~okToJump_ /\ okToJump_' /\ ~last'.loaded) =>
          /\ last'.op = "FixedUpdate"
          /\ inAirTimer_' < INAIR_THRESHOLD_TIME
          /\ ~IsDown(buttons, CTRL_JUMP)]_vars

\* C9's case: a soft-grounded step with the control up has armed the jump again.
C9_Witness ==
    /\ last.op = "FixedUpdate"
    /\ ~last.okToJump
    /\ okToJump_

=============================================================================
